---- MODULE Spec2Model ----
(***************************************************************************)
(* Backbone.Controller (src/controller.js): resolution of a route to an    *)
(* action method (findActionMethodAndParameters), its invocation           *)
(* (dispatch / callActionMethod) and the life cycle of the controller's    *)
(* single view slot (removeView / remove).                                 *)
(*                                                                         *)
(* JavaScript strings are sequences of one-character strings, so that      *)
(* camel-casing, concatenation with the suffix and Number() are computed   *)
(* and not assumed.  A JavaScript value that may be null, undefined, a     *)
(* string or a number is a tagged record.                                  *)
(***************************************************************************)
EXTENDS Integers, Sequences, FiniteSets

VARIABLES
    actions,             \* names of the members of the controller that are Functions
    actionMethodSuffix,  \* this.actionMethodSuffix
    defaultAction,       \* this.defaultAction
    view,                \* this.view
    stack,               \* dispatch calls in progress, innermost last
    outcome,             \* how the last dispatch() / remove() ended; none once a later dispatch runs
    removeCalls,         \* per view: number of calls of view.remove()
    created,             \* number of views constructed by actions so far
    everCurrent          \* history: the views that have been stored in this.view

vars == <<actions, actionMethodSuffix, defaultAction, view, stack, outcome,
          removeCalls, created, everCurrent>>

----------------------------------------------------------------------------
(* Bounds of the model *)

\* longest routeParts array passed to dispatch
MaxParts == 2
\* number of views the actions construct in one behaviour
MaxViews == 2
\* deepest nesting of dispatch calls (an action that calls dispatch itself)
MaxDepth == 2

----------------------------------------------------------------------------
(* JavaScript values *)

Null == [t |-> "null"]
Undefined == [t |-> "undefined"]
NaN == [t |-> "NaN"]
Str(s) == [t |-> "string", v |-> s]
Num(n) == [t |-> "number", v |-> n]
\* an instance of BackboneView, identified by its construction number
View(n) == [t |-> "view", v |-> n]
\* a plain object that is no BackboneView
PlainObject == [t |-> "object"]

IsView(x) == x.t = "view"

\* String(x) for the values that are concatenated to a name or used as a key
ToString(x) ==
    CASE x.t = "null" -> <<"n", "u", "l", "l">>
      [] x.t = "undefined" -> <<"u", "n", "d", "e", "f", "i", "n", "e", "d">>
      [] x.t = "string" -> x.v

Digits == <<"0", "1", "2", "3", "4", "5", "6", "7", "8", "9">>
IsDigit(c) == \E d \in 1..10 : Digits[d] = c
DigitValue(c) == (CHOOSE d \in 1..10 : Digits[d] = c) - 1

RECURSIVE DecimalValue(_)
DecimalValue(s) ==
    IF s = <<>> THEN 0
    ELSE 10 * DecimalValue(SubSeq(s, 1, Len(s) - 1)) + DigitValue(s[Len(s)])

\* Number(x): null is 0, undefined is NaN, the empty string is 0, a string of
\* decimal digits is its value, any other string of the model's alphabet is NaN
Number(x) ==
    CASE x.t = "null" -> Num(0)
      [] x.t = "undefined" -> NaN
      [] x.t = "number" -> x
      [] x.t = "string" ->
            IF \A i \in 1..Len(x.v) : IsDigit(x.v[i])
            THEN Num(DecimalValue(x.v))
            ELSE NaN

----------------------------------------------------------------------------
(* findActionMethodAndParameters *)

\* this[key] instanceof Function: the key is converted to a property name
IsFunction(key) == ToString(key) \in actions

\* a conversion without the test for null: Number(null) is 0
ConvertParameter_NoNullCheck(parameter) ==
    LET asNumber == Number(parameter)
    IN  IF asNumber # NaN THEN asNumber ELSE parameter

\* the conversion of one additional parameter "to the correct type"
ConvertParameter(parameter) ==
    LET asNumber == Number(parameter)
    IN  IF parameter # Null /\ asNumber # NaN THEN asNumber ELSE parameter

\* String.prototype.toUpperCase on one character
ToUpperCase(c) ==
    CASE c = "a" -> "A"
      [] c = "b" -> "B"
      [] c = "i" -> "I"
      [] c = "n" -> "N"
      [] c = "u" -> "U"
      [] c = "x" -> "X"
      [] OTHER -> c

\* routePart.charAt(0).toUpperCase() + routePart.slice(1)
UpperFirst(routePart) ==
    IF routePart = <<>> THEN <<>>
    ELSE <<ToUpperCase(routePart[1])>> \o SubSeq(routePart, 2, Len(routePart))

\* "camel case the parts": the first is kept as given
CamelParts(routeParts) ==
    [index \in 1..Len(routeParts) |->
        IF index = 1 THEN routeParts[index] ELSE UpperFirst(routeParts[index])]

\* parts.slice(0, position).join('')
RECURSIVE JoinPrefix(_, _)
JoinPrefix(parts, position) ==
    IF position <= 0 THEN <<>>
    ELSE JoinPrefix(parts, position - 1) \o parts[position]

\* array.slice(start) for start >= 0
SliceFrom(array, start) ==
    IF start >= Len(array) THEN <<>> ELSE SubSeq(array, start + 1, Len(array))

\* a loop that does not record the names it tests
RECURSIVE FindLoop_NoRecord(_, _, _, _)
FindLoop_NoRecord(parts, actionMethod, position, listOfTestedMethods) ==
    IF ~IsFunction(actionMethod) /\ position > 0
    THEN LET next == Str(JoinPrefix(parts, position) \o actionMethodSuffix)
         IN  FindLoop_NoRecord(parts, next, position - 1, listOfTestedMethods)
    ELSE [actionMethod |-> actionMethod, position |-> position,
          listOfTestedMethods |-> listOfTestedMethods]

\* the while loop that looks for the calling method
RECURSIVE FindLoop(_, _, _, _)
FindLoop(parts, actionMethod, position, listOfTestedMethods) ==
    IF ~IsFunction(actionMethod) /\ position > 0
    THEN LET next == Str(JoinPrefix(parts, position) \o actionMethodSuffix)
         IN  FindLoop(parts, next, position - 1, Append(listOfTestedMethods, next))
    ELSE [actionMethod |-> actionMethod, position |-> position,
          listOfTestedMethods |-> listOfTestedMethods]

\* the condition of the "default action" branch
UseDefaultAction(actionMethod) ==
    /\ (defaultAction # Undefined \/ defaultAction # Null)
    /\ (actionMethod = Undefined \/ ~IsFunction(actionMethod))

\* The result is a record: threw tells whether the Error of line 208 was
\* thrown, message holds the values interpolated into its text, info the
\* values interpolated into the console.info text (<<>> when nothing is
\* logged); listOfTestedMethods and position are the locals of the same name.
findActionMethodAndParameters(route, routeParts, parameters) ==
    LET converted == [i \in 1..Len(parameters) |-> ConvertParameter(parameters[i])]
        parts == CamelParts(routeParts)
        loop == FindLoop(parts, Null, Len(parts), <<>>)
        nothingFound == ~IsFunction(loop.actionMethod) /\ loop.position = 0
        found == IF nothingFound THEN Undefined ELSE loop.actionMethod
        position == IF nothingFound THEN -1 ELSE loop.position
        leftover == SliceFrom(routeParts, position + 1)
        all == [i \in 1..Len(leftover) |-> Str(leftover[i])] \o converted
        useDefault == UseDefaultAction(found)
        actionMethod ==
            IF useDefault
            THEN Str(ToString(defaultAction) \o actionMethodSuffix)
            ELSE found
        info ==
            IF useDefault
            THEN <<[routeName |-> route.name, routeRoute |-> route.route,
                    listOfTestedMethods |-> loop.listOfTestedMethods,
                    actionMethod |-> actionMethod]>>
            ELSE <<>>
    IN  [threw |-> ~IsFunction(actionMethod),
         message |-> [actionMethod |-> actionMethod, routeName |-> route.name,
                      routeRoute |-> route.route],
         info |-> info,
         method |-> actionMethod,
         parameters |-> all,
         position |-> position,
         listOfTestedMethods |-> loop.listOfTestedMethods]

----------------------------------------------------------------------------
(* The inputs of the model *)

\* the route objects handed to dispatch
Routes == {[name |-> "r1", route |-> "a/bx/:id"], [name |-> "r2", route |-> "bx"]}

\* the strings a route part can be
PartNames == {<<"a">>, <<"b", "x">>}

\* the values an additional argument can be: "42", "a", "" and null
ParamValues == {Str(<<"4", "2">>), Str(<<"a">>), Str(<<>>), Null}

\* the lists of additional arguments passed to dispatch: none, each value
\* alone, and pairs in both orders
ArgLists ==
    {<<>>}
        \cup {<<p>> : p \in ParamValues}
        \cup {<<Str(<<"4", "2">>), Str(<<"a">>)>>,
              <<Str(<<"a">>), Str(<<"4", "2">>)>>,
              <<Null, Str(<<"4", "2">>)>>,
              <<Str(<<>>), Null>>}

SeqsUpTo(S, n) == UNION {[1..k -> S] : k \in 0..n}

\* the values of this.actionMethodSuffix: '' (the prototype's) and "Z"
Suffixes == {<<>>, <<"Z">>}

\* the values of this.defaultAction: 'index' (here "i"), null and undefined
DefaultActions == {Str(<<"i">>), Null, Undefined}

\* the member names a controller of the model may define as Functions: the
\* names a resolution can ask for under the configuration, i.e. two of the
\* candidates and the name formed from defaultAction, each with the suffix,
\* and the key that the first test of the loop (this[null]) reads
MemberNames(suffix, default) ==
    {n \o suffix : n \in {<<"a">>, <<"a", "B", "x">>, ToString(default)}}
        \cup {ToString(Null)}

----------------------------------------------------------------------------
(* The controller *)

NoOutcome == [op |-> "none", kind |-> "none", depth |-> 0]

\* the state after new Controller(options), where options sets the action
\* methods, actionMethodSuffix and defaultAction
Init ==
    /\ actionMethodSuffix \in Suffixes
    /\ defaultAction \in DefaultActions
    /\ actions \in SUBSET MemberNames(actionMethodSuffix, defaultAction)
    /\ view = Null
    /\ stack = <<>>
    /\ outcome = NoOutcome
    /\ removeCalls = [n \in 1..MaxViews |-> 0]
    /\ created = 0
    /\ everCurrent = {}

Top == stack[Len(stack)]
Pop == SubSeq(stack, 1, Len(stack) - 1)

\* a removeView that calls remove and keeps the reference
removeView_KeepsReference ==
    IF IsView(view)
    THEN [view |-> view,
          removeCalls |-> [removeCalls EXCEPT ![view.v] = @ + 1]]
    ELSE [view |-> view, removeCalls |-> removeCalls]

\* removeView: the new values of this.view and of the views' remove counters
removeView ==
    IF IsView(view)
    THEN [view |-> Null,
          removeCalls |-> [removeCalls EXCEPT ![view.v] = @ + 1]]
    ELSE [view |-> view, removeCalls |-> removeCalls]

\* dispatch, up to the call of callActionMethod: its argument
\* findActionMethodAndParameters(...) is evaluated first; when that throws,
\* callActionMethod is never entered
EnterDispatch(route, routeParts, args) ==
    LET found == findActionMethodAndParameters(route, routeParts, args)
    IN  IF found.threw
        THEN /\ outcome' = [op |-> "dispatch", kind |-> "NoActionResolvable",
                            depth |-> Len(stack) + 1,
                            message |-> found.message, info |-> found.info,
                            route |-> route, routeParts |-> routeParts,
                            viewBefore |-> view]
             /\ UNCHANGED <<stack, view, removeCalls, created, everCurrent>>
        ELSE /\ stack' = Append(stack,
                    [pc |-> "callActionMethod", route |-> route,
                     routeParts |-> routeParts, args |-> args,
                     method |-> found.method, parameters |-> found.parameters,
                     position |-> found.position,
                     listOfTestedMethods |-> found.listOfTestedMethods,
                     info |-> found.info])
             /\ outcome' = NoOutcome
             /\ UNCHANGED <<view, removeCalls, created, everCurrent>>

\* a call of dispatch by the router
Dispatch(route, routeParts, args) ==
    /\ stack = <<>>
    /\ EnterDispatch(route, routeParts, args)
    /\ UNCHANGED <<actions, actionMethodSuffix, defaultAction>>

\* a call of dispatch by an action method that is running
NestedDispatch(route, routeParts, args) ==
    /\ stack # <<>>
    /\ Top.pc = "action"
    /\ Len(stack) < MaxDepth
    /\ EnterDispatch(route, routeParts, args)
    /\ UNCHANGED <<actions, actionMethodSuffix, defaultAction>>

\* a callActionMethod without the call of removeView
CallActionMethod_NoRemoveView ==
    /\ stack # <<>>
    /\ stack[Len(stack)].pc = "callActionMethod"
    /\ stack' = [stack EXCEPT ![Len(stack)] =
                    [pc |-> "action", method |-> stack[Len(stack)].method,
                     viewBefore |-> view]]
    /\ UNCHANGED <<actions, actionMethodSuffix, defaultAction, outcome, created,
                   everCurrent, view, removeCalls>>

\* callActionMethod, up to the call of the action method: removeView, then
\* this[method].apply(this, parameters) with the method and parameters of
\* the resolution.  The running call keeps the method and, as history, the
\* view that this.view held when callActionMethod was entered.
CallActionMethod ==
    /\ stack # <<>>
    /\ Top.pc = "callActionMethod"
    /\ view' = removeView.view
    /\ removeCalls' = removeView.removeCalls
    /\ stack' = [stack EXCEPT ![Len(stack)] =
                    [pc |-> "action", method |-> Top.method,
                     viewBefore |-> view]]
    /\ UNCHANGED <<actions, actionMethodSuffix, defaultAction, outcome, created,
                   everCurrent>>

\* the values an action method can return: nothing, null, a plain object or
\* a BackboneView it has constructed
ActionResults ==
    {Undefined, Null, PlainObject}
        \cup (IF created < MaxViews THEN {View(created + 1)} ELSE {})

\* a wrong check of the result: the value is stored before it is checked
CheckResult_StoresBeforeCheck(result) ==
    IF result = Undefined \/ result = Null
    THEN [kind |-> "returned", view |-> view, removeCalls |-> removeCalls]
    ELSE IF ~IsView(result)
    THEN [kind |-> "InvalidActionResult", view |-> result,
          removeCalls |-> removeCalls]
    ELSE [kind |-> "returned", view |-> result, removeCalls |-> removeCalls]

\* a guarded store: the view found in this.view is released before the
\* returned one takes its place
CheckResult_ReleasesPrevious(result) ==
    IF result = Undefined \/ result = Null
    THEN [kind |-> "returned", view |-> view, removeCalls |-> removeCalls]
    ELSE IF ~IsView(result)
    THEN [kind |-> "InvalidActionResult", view |-> view,
          removeCalls |-> removeCalls]
    ELSE [kind |-> "returned", view |-> result,
          removeCalls |-> removeView.removeCalls]

\* callActionMethod after the action has returned result: how it ends, and
\* the new values of this.view and of the views' remove counters
CheckResult(result) ==
    IF result = Undefined \/ result = Null
    THEN [kind |-> "returned", view |-> view, removeCalls |-> removeCalls]
    ELSE IF ~IsView(result)
    THEN [kind |-> "InvalidActionResult", view |-> view,
          removeCalls |-> removeCalls]
    ELSE [kind |-> "returned", view |-> result, removeCalls |-> removeCalls]

\* the action method returns result; callActionMethod checks and stores it.
\* The outcome records the method (the Error of an invalid result names it)
\* and, as history, the value of this.view before the store.
ActionReturns(result) ==
    /\ stack # <<>>
    /\ Top.pc = "action"
    /\ result \in ActionResults
    /\ stack' = Pop
    /\ view' = CheckResult(result).view
    /\ removeCalls' = CheckResult(result).removeCalls
    /\ created' = IF IsView(result) THEN created + 1 ELSE created
    /\ everCurrent' = IF IsView(view') THEN everCurrent \cup {view'} ELSE everCurrent
    /\ outcome' = [op |-> "dispatch", kind |-> CheckResult(result).kind,
                   depth |-> Len(stack), result |-> result,
                   method |-> Top.method,
                   viewBefore |-> Top.viewBefore,
                   overwritten |-> view]
    /\ UNCHANGED <<actions, actionMethodSuffix, defaultAction>>

\* the action method throws; the exception leaves callActionMethod and dispatch
ActionThrows ==
    /\ stack # <<>>
    /\ Top.pc = "action"
    /\ stack' = Pop
    /\ outcome' = [op |-> "dispatch", kind |-> "ActionError",
                   depth |-> Len(stack), viewBefore |-> Top.viewBefore]
    /\ UNCHANGED <<actions, actionMethodSuffix, defaultAction, view, removeCalls,
                   created, everCurrent>>

\* a remove() that only stops listening
Remove_OnlyStopsListening ==
    /\ stack = <<>>
    /\ outcome' = [op |-> "remove", kind |-> "returned", depth |-> 0,
                   viewBefore |-> view, repeated |-> outcome.op = "remove"]
    /\ UNCHANGED <<actions, actionMethodSuffix, defaultAction, stack, created,
                   everCurrent, view, removeCalls>>

\* remove(): removeView().stopListening(); the subscriptions that
\* stopListening drops belong to Backbone.Events and are not part of the state
Remove ==
    /\ stack = <<>>
    /\ view' = removeView.view
    /\ removeCalls' = removeView.removeCalls
    /\ outcome' = [op |-> "remove", kind |-> "returned", depth |-> 0,
                   viewBefore |-> view, repeated |-> outcome.op = "remove"]
    /\ UNCHANGED <<actions, actionMethodSuffix, defaultAction, stack, created,
                   everCurrent>>

Inputs == Routes \X SeqsUpTo(PartNames, MaxParts) \X ArgLists

\* dispatch calls come from the router only, one after the other
Next ==
    \/ \E in \in Inputs : Dispatch(in[1], in[2], in[3])
    \/ CallActionMethod
    \/ \E result \in ActionResults : ActionReturns(result)
    \/ ActionThrows
    \/ Remove

Spec == Init /\ [][Next]_vars

\* the dispatch calls of route r1 without additional arguments
PlainInputs == {in \in Inputs : in[1].name = "r1" /\ in[3] = <<>>}

\* action methods may call dispatch on their own controller.  Neither the
\* route, which only enters the logged and thrown texts, nor what the
\* additional arguments become depends on the nesting, so the calls of this
\* specification are those of one route and pass no additional arguments.
NextReentrant ==
    \/ \E in \in PlainInputs : Dispatch(in[1], in[2], in[3])
    \/ \E in \in PlainInputs : NestedDispatch(in[1], in[2], in[3])
    \/ CallActionMethod
    \/ \E result \in ActionResults : ActionReturns(result)
    \/ ActionThrows
    \/ Remove

SpecReentrant == Init /\ [][NextReentrant]_vars

----------------------------------------------------------------------------
(* What the claims speak of *)

\* the candidate name of prefix length k: the camel-joined first k parts
\* followed by the suffix
Candidate(routeParts, k) ==
    Str(JoinPrefix(CamelParts(routeParts), k) \o actionMethodSuffix)

\* the prefix lengths whose candidate is a Function of the controller
MatchLengths(routeParts) ==
    {k \in 1..Len(routeParts) : Candidate(routeParts, k).v \in actions}

Longest(S) == CHOOSE k \in S : \A j \in S : j <= k

\* the candidates of the prefix lengths N, N-1, ..., k, in this order
CandidatesDownTo(routeParts, k) ==
    [j \in 1..(Len(routeParts) - k + 1) |->
        Candidate(routeParts, Len(routeParts) - j + 1)]

\* the calls whose resolution has succeeded and whose action is about to be
\* applied
Resolved == {i \in 1..Len(stack) : stack[i].pc = "callActionMethod"}

\* the prefix length at which the loop of a resolved call stopped, 0 when it
\* stopped at no candidate
MatchedAt(call) ==
    IF call.listOfTestedMethods # <<>> /\ call.position >= 0
    THEN call.position + 1
    ELSE 0

\* what the claims expect an additional argument to become: a string of
\* decimal digits (the empty string included, read as 0) becomes its number,
\* anything else stays
Expected(parameter) ==
    IF parameter.t = "string" /\ \A i \in 1..Len(parameter.v) : IsDigit(parameter.v[i])
    THEN Num(DecimalValue(parameter.v))
    ELSE parameter

FailedDispatch ==
    /\ outcome.op = "dispatch"
    /\ outcome.kind \in {"NoActionResolvable", "InvalidActionResult", "ActionError"}

Released(v) == IsView(v) => removeCalls[v.v] >= 1

----------------------------------------------------------------------------
(* C1 *)

\* C1: longest prefix wins.  Whenever a resolution succeeds for routeParts of
\* length N >= 1 of which at least one prefix candidate is a Function, the
\* method is the candidate of the largest such prefix length k, and the names
\* tested are exactly the candidates of N, N-1, ..., k in this order.
C1_LongestPrefixWins ==
    \A i \in Resolved :
        LET call == stack[i]
            lengths == MatchLengths(call.routeParts)
        IN  lengths # {} =>
                /\ call.method = Candidate(call.routeParts, Longest(lengths))
                /\ call.listOfTestedMethods =
                        CandidatesDownTo(call.routeParts, Longest(lengths))

\* C1 restricted to the controllers that have no Function named "null"
C1_UnlessMemberNamedNull ==
    ToString(Null) \notin actions => C1_LongestPrefixWins

----------------------------------------------------------------------------
(* C2 *)

\* C2: argument construction.  Whenever a resolution matches at prefix length
\* k >= 1, the parameters are the route parts after the k-th, as given and in
\* their order, followed by the additional arguments in their order, each
\* numeric string replaced by its number ("42" by 42) and every other one
\* ("a", null) unchanged; the method is the matched candidate.
C2_ArgumentConstruction ==
    \A i \in Resolved :
        LET call == stack[i]
            k == MatchedAt(call)
            N == Len(call.routeParts)
        IN  k >= 1 =>
                /\ k <= N
                /\ call.method = Candidate(call.routeParts, k)
                /\ Len(call.parameters) = (N - k) + Len(call.args)
                /\ \A j \in 1..(N - k) :
                        call.parameters[j] = Str(call.routeParts[k + j])
                /\ \A j \in 1..Len(call.args) :
                        /\ call.parameters[(N - k) + j] = Expected(call.args[j])
                        /\ call.args[j] = Str(<<"4", "2">>)
                                => call.parameters[(N - k) + j] = Num(42)
                        /\ call.args[j] \in {Str(<<"a">>), Null}
                                => call.parameters[(N - k) + j] = call.args[j]

\* a resolution that matched at k < N with two additional arguments, the
\* first of them null and the second "42"
C2_Witness ==
    \E i \in Resolved :
        /\ MatchedAt(stack[i]) = 1
        /\ Len(stack[i].routeParts) = 2
        /\ stack[i].args = <<Null, Str(<<"4", "2">>)>>

----------------------------------------------------------------------------
(* C3 *)

\* C3: default-action fallback.  With defaultAction a string D and no prefix
\* candidate of routeParts a Function (routeParts may be empty), a resolution
\* that succeeds has the method D + suffix, which is a Function; so when
\* D + suffix is no Function the resolution fails and nothing is applied.
C3_DefaultActionFallback ==
    \A i \in Resolved :
        LET call == stack[i]
        IN  (defaultAction.t = "string" /\ MatchLengths(call.routeParts) = {})
                => /\ call.method = Str(defaultAction.v \o actionMethodSuffix)
                   /\ call.method.v \in actions

\* C3 restricted to the controllers that have no Function named "null"
C3_UnlessMemberNamedNull ==
    ToString(Null) \notin actions => C3_DefaultActionFallback

----------------------------------------------------------------------------
(* C7 *)

\* C7: a disabled default forces a hard failure.  With defaultAction null or
\* undefined and no prefix candidate a Function, no resolution succeeds
\* whatever Functions the controller has, and a failed resolution has formed
\* no fallback name: it logs no "Using default action method" line.
C7_DisabledDefaultFails ==
    defaultAction \in {Null, Undefined} =>
        /\ \A i \in Resolved : MatchLengths(stack[i].routeParts) # {}
        /\ outcome.kind = "NoActionResolvable" => outcome.info = <<>>

\* the first half of C7 alone: no resolution succeeds
C7_NoResolutionSucceeds ==
    defaultAction \in {Null, Undefined} =>
        \A i \in Resolved :
            \/ MatchLengths(stack[i].routeParts) # {}
            \/ stack[i].method = Null

----------------------------------------------------------------------------
(* C8 *)

\* the action names that the text of the Error of a failed resolution holds
NamesInMessage(message) == {message.actionMethod}

\* C8 as claimed: the Error of a failed resolution holds every name that was
\* tested, and the default action name, the route name and the route pattern.
C8_ErrorCarriesCandidates ==
    outcome.kind = "NoActionResolvable" =>
        /\ \A k \in 1..Len(outcome.routeParts) :
                Candidate(outcome.routeParts, k) \in NamesInMessage(outcome.message)
        /\ outcome.message.routeName = outcome.route.name
        /\ outcome.message.routeRoute = outcome.route.route

\* C8 as amended: the Error of a failed resolution holds the fallback name
\* String(defaultAction) + suffix, the route name and the route pattern, and
\* no other name; every candidate, longest prefix first, is in the
\* console.info line logged just before, with the same fallback name and route.
C8_CandidatesAreLogged ==
    outcome.kind = "NoActionResolvable" =>
        LET fallback == Str(ToString(defaultAction) \o actionMethodSuffix)
        IN  /\ outcome.message =
                    [actionMethod |-> fallback,
                     routeName |-> outcome.route.name,
                     routeRoute |-> outcome.route.route]
            /\ outcome.info =
                    <<[routeName |-> outcome.route.name,
                       routeRoute |-> outcome.route.route,
                       listOfTestedMethods |->
                            CandidatesDownTo(outcome.routeParts, 1),
                       actionMethod |-> fallback]>>

\* a failed resolution of two route parts
C8_Witness ==
    /\ outcome.kind = "NoActionResolvable"
    /\ Len(outcome.routeParts) = 2

----------------------------------------------------------------------------
(* C4 *)

\* C4 as claimed: after every dispatch that failed, by a failed resolution,
\* by an exception of the action or by an invalid result, the view held
\* before the dispatch has been released and this.view is empty.
C4_FailedDispatchLeavesNoView ==
    (stack = <<>> /\ FailedDispatch) =>
        /\ view = Null
        /\ Released(outcome.viewBefore)

\* C4 as amended, for dispatch calls that are not nested: after a dispatch
\* that failed by an exception of the action or by an invalid result, the
\* view held before has been released and this.view is empty; after a
\* dispatch that failed by a failed resolution, this.view still holds the
\* view held before, and no remove of it has been called.
C4_FailedResolutionKeepsView ==
    (stack = <<>> /\ FailedDispatch) =>
        IF outcome.kind = "NoActionResolvable"
        THEN /\ view = outcome.viewBefore
             /\ IsView(view) => removeCalls[view.v] = 0
        ELSE /\ view = Null
             /\ Released(outcome.viewBefore)

\* a failed resolution while a view is held
C4_Witness ==
    /\ stack = <<>>
    /\ outcome.kind = "NoActionResolvable"
    /\ IsView(outcome.viewBefore)

----------------------------------------------------------------------------
(* C5 *)

\* C5: the prior view is released before the next action runs.  For dispatch
\* calls that are not nested: while an action runs, this.view is empty and
\* the view held when callActionMethod was entered has been released; every
\* view that was stored in this.view and is no longer there has been
\* released; and after a dispatch whose action returned nothing this.view is
\* empty, whatever view was held before.
C5_PriorViewReleasedFirst ==
    /\ \A i \in 1..Len(stack) :
            stack[i].pc = "action" =>
                /\ view = Null
                /\ Released(stack[i].viewBefore)
    /\ \A v \in everCurrent : v # view => removeCalls[v.v] >= 1
    /\ (stack = <<>> /\ outcome.op = "dispatch" /\ outcome.kind = "returned"
            /\ outcome.result \in {Null, Undefined})
        => view = Null

\* a dispatch whose action returned nothing, made while a view was held
C5_Witness ==
    /\ stack = <<>>
    /\ outcome.op = "dispatch"
    /\ outcome.kind = "returned"
    /\ outcome.result = Undefined
    /\ IsView(outcome.viewBefore)
    /\ removeCalls[outcome.viewBefore.v] = 1

----------------------------------------------------------------------------
(* C6 *)

\* C6: validation of the action's result, for dispatch calls that are not
\* nested.  A dispatch ends by InvalidActionResult exactly when its action
\* returned a value that is neither null, undefined nor a view; this.view is
\* then empty and the value is not stored.  After a null or undefined result
\* dispatch has returned and this.view is empty; after a view result dispatch
\* has returned and this.view is that view.
C6_ActionResultValidation ==
    (stack = <<>> /\ outcome.op = "dispatch"
            /\ outcome.kind \in {"returned", "InvalidActionResult"})
        => /\ outcome.kind = "InvalidActionResult"
                <=> (outcome.result \notin {Null, Undefined} /\ ~IsView(outcome.result))
           /\ outcome.kind = "InvalidActionResult"
                => (view = Null /\ view # outcome.result)
           /\ (outcome.kind = "returned" /\ outcome.result \in {Null, Undefined})
                => view = Null
           /\ (outcome.kind = "returned" /\ IsView(outcome.result))
                => view = outcome.result

\* a dispatch that failed by a plain object result while a view was held
C6_Witness ==
    /\ stack = <<>>
    /\ outcome.kind = "InvalidActionResult"
    /\ outcome.result = PlainObject
    /\ IsView(outcome.viewBefore)

----------------------------------------------------------------------------
(* C9 *)

\* C9: remove() is idempotent.  Every remove() returns, leaves this.view
\* empty and calls remove once on the view that was held and on no other
\* view; a remove() that directly follows a remove() calls remove on no view
\* and changes neither this.view nor any view.
C9_RemoveIdempotent ==
    [][Remove =>
        /\ view' = Null
        /\ outcome'.kind = "returned"
        /\ \A n \in 1..MaxViews :
                removeCalls'[n] =
                    removeCalls[n] + (IF view = View(n) THEN 1 ELSE 0)
        /\ outcome.op = "remove" => UNCHANGED <<view, removeCalls>>]_vars

\* a remove() that directly followed a remove() which had released a view
C9_Witness ==
    /\ outcome.op = "remove"
    /\ outcome.repeated
    /\ \E n \in 1..MaxViews : removeCalls[n] = 1

----------------------------------------------------------------------------
(* C10 *)

\* the views that were stored in this.view, are no longer there and have
\* never been released
Dropped == {v \in everCurrent : v # view /\ removeCalls[v.v] = 0}

\* C10: no reentrancy guard, last writer wins.  When an action returns a view
\* while this.view holds the view a nested dispatch has stored, the returned
\* view takes its place and the nested one is dropped without a remove; and
\* a dropped view stays dropped: no later step calls its remove.
C10_LastWriterWins ==
    /\ []((outcome.op = "dispatch" /\ outcome.kind = "returned"
                /\ IsView(outcome.result) /\ IsView(outcome.overwritten))
            => (view = outcome.result /\ outcome.overwritten \in Dropped))
    /\ [][\A v \in Dropped : v \in Dropped']_vars

\* an outer action has returned a view over the view of a nested dispatch
C10_Witness ==
    /\ stack = <<>>
    /\ outcome.op = "dispatch"
    /\ outcome.kind = "returned"
    /\ outcome.result = View(2)
    /\ outcome.overwritten = View(1)
    /\ view = View(2)
    /\ removeCalls[1] = 0

====
